---------------------------- MODULE Spec2Model ----------------------------
(***************************************************************************)
(* Fibonacci by linear algebra: exact arithmetic in Z[sqrt d], the n-ary   *)
(* decorator, the halve-and-square recursion and the evaluator that puts   *)
(* them together (Fibonacci_by_linear_algebra_approach.py).                *)
(*                                                                         *)
(* The recursion is run as a machine with an explicit call stack, one step *)
(* per call, return and combination, so that the depth of the recursion,   *)
(* the operands handed to f and the number of products are observable.     *)
(* The caller asks for fibonacci(n) for one n after the other and keeps    *)
(* the answers, so that an answer can be set against the two before it.    *)
(***************************************************************************)
EXTENDS Integers, Sequences, FiniteSets, TLC

VARIABLES
    n,          \* the argument n of the outermost call
    expr,       \* power_recursion's expr (passed unchanged to every level)
    f,          \* power_recursion's f: the closure, as a record
    pc,         \* where the outermost call stands
    stack,      \* the n of every active power_recursion frame, innermost last
    args,       \* the operands of the latest call of f on args
    ret,        \* <<v>>: the value the latest completed call returned
    result,     \* <<v>>: the value the outermost call returned
    err,        \* the exception that ended the outermost call, "" if none
    calls,      \* power_recursion frames entered so far
    maxDepth,   \* the deepest the stack has been
    products,   \* calls of the undecorated binary function so far
    fibOf,      \* n |-> what fibonacci(n) returned, for the calls made so far
    powerOf     \* n |-> what their outermost power_recursion returned

vars ==
    <<n, expr, f, pc, stack, args, ret, result, err, calls, maxDepth, products,
      fibOf, powerOf>>

----------------------------------------------------------------------------
(* Bounds of the inputs. *)

\* Largest index n of fibonacci(n) tried.
MaxN == 100

\* Largest exponent n of power_recursion called on its own.
MaxExp == 24

\* Indices down to -MaxNeg are tried.
MaxNeg == 3

\* Integer bases -MaxK..MaxK for power_recursion over integer multiplication.
MaxK == 2

\* Coefficients -MaxCoef..MaxCoef of the operands of a single field multiply.
MaxCoef == 3

\* Field parameters -MaxD..MaxD of a single field multiply.
MaxD == 5

\* Most operands handed to a decorated function on its own.
MaxArity == 3

\* The values an arbitrary binary function is tabulated over.
Bit == {0, 1}

\* Field elements and field parameters power_recursion is run on directly.
Exprs == {<<1, 1>>, <<1, -1>>, <<0, 1>>, <<-1, 2>>, <<2, 0>>, <<0, 0>>}
Fields == {-1, 0, 2, 5}

----------------------------------------------------------------------------
(* The functions. *)

\* Python's integers are unbounded and TLC's have 32 bits, so a number that
\* the multiplications make grow is kept the way CPython keeps a long: a sign
\* and the digits of its magnitude, least significant first, here to the
\* base 1000. The index n, which only shrinks, stays a TLC integer.
Radix == 10 ^ 3

RECURSIVE Strip(_)
Strip(m) ==
    IF m = <<>> THEN m
    ELSE IF m[Len(m)] = 0 THEN Strip(SubSeq(m, 1, Len(m) - 1))
    ELSE m

Canon(neg, m) == LET s == Strip(m) IN [neg |-> neg /\ s # <<>>, mag |-> s]

RECURSIVE Limbs(_)
Limbs(i) == IF i = 0 THEN <<>> ELSE <<i % Radix>> \o Limbs(i \div Radix)

\* The number i, for a TLC integer i.
Long(i) == IF i < 0 THEN Canon(TRUE, Limbs(0 - i)) ELSE Canon(FALSE, Limbs(i))

LimbAt(m) == IF m = <<>> THEN 0 ELSE Head(m)
Rest(m) == IF m = <<>> THEN <<>> ELSE Tail(m)

RECURSIVE MagAdd(_, _, _)
MagAdd(a, b, carry) ==
    IF a = <<>> /\ b = <<>>
    THEN IF carry = 0 THEN <<>> ELSE <<carry>>
    ELSE LET s == LimbAt(a) + LimbAt(b) + carry
         IN  <<s % Radix>> \o MagAdd(Rest(a), Rest(b), s \div Radix)

\* a - b - borrow for magnitudes a >= b.
RECURSIVE MagSub(_, _, _)
MagSub(a, b, borrow) ==
    IF a = <<>>
    THEN <<>>
    ELSE LET s == Head(a) - LimbAt(b) - borrow
         IN  IF s < 0
             THEN <<s + Radix>> \o MagSub(Tail(a), Rest(b), 1)
             ELSE <<s>> \o MagSub(Tail(a), Rest(b), 0)

RECURSIVE MagLess(_, _)
MagLess(a, b) ==
    IF Len(a) # Len(b) THEN Len(a) < Len(b)
    ELSE IF a = <<>> THEN FALSE
    ELSE IF a[Len(a)] # b[Len(b)] THEN a[Len(a)] < b[Len(b)]
    ELSE MagLess(SubSeq(a, 1, Len(a) - 1), SubSeq(b, 1, Len(b) - 1))

RECURSIVE MagMulLimb(_, _, _)
MagMulLimb(a, d, carry) ==
    IF a = <<>>
    THEN IF carry = 0 THEN <<>> ELSE <<carry>>
    ELSE LET s == Head(a) * d + carry
         IN  <<s % Radix>> \o MagMulLimb(Tail(a), d, s \div Radix)

RECURSIVE MagMul(_, _)
MagMul(a, b) ==
    IF b = <<>>
    THEN <<>>
    ELSE MagAdd(MagMulLimb(a, Head(b), 0), <<0>> \o MagMul(a, Tail(b)), 0)

MagHalf(a) ==
    [i \in 1..Len(a) |->
        (a[i] + (IF i < Len(a) THEN (a[i + 1] % 2) * Radix ELSE 0)) \div 2]

RECURSIVE MagShr(_, _)
MagShr(a, k) == IF k = 0 \/ a = <<>> THEN a ELSE MagShr(Strip(MagHalf(a)), k - 1)

\* -a
Neg(a) == Canon(~a.neg, a.mag)

\* a + b
Add(a, b) ==
    IF a.neg = b.neg THEN Canon(a.neg, MagAdd(a.mag, b.mag, 0))
    ELSE IF MagLess(a.mag, b.mag) THEN Canon(b.neg, MagSub(b.mag, a.mag, 0))
    ELSE Canon(a.neg, MagSub(a.mag, b.mag, 0))

\* a - b
Sub(a, b) == Add(a, Neg(b))

\* a * b
Mul(a, b) == Canon(a.neg # b.neg, MagMul(a.mag, b.mag))

\* fm_f with the last subtraction left out.
fm_f_keeps_v(squared_field, expr1, expr2) ==
    LET w == expr1[1]
        x == expr1[2]
        y == expr2[1]
        z == expr2[2]
        u == Mul(w, y)
        v == Mul(x, z)
    IN  <<Add(u, Mul(squared_field, v)), Sub(Mul(Add(w, x), Add(y, z)), u)>>

\* fm_f with the field parameter left out of the first component.
fm_f_drops_field(squared_field, expr1, expr2) ==
    LET w == expr1[1]
        x == expr1[2]
        y == expr2[1]
        z == expr2[2]
        u == Mul(w, y)
        v == Mul(x, z)
    IN  <<Add(u, v), Sub(Sub(Mul(Add(w, x), Add(y, z)), u), v)>>

\* fm_f before decoration: (w + x sqrt d) * (y + z sqrt d), three products.
fm_f(squared_field, expr1, expr2) ==
    LET w == expr1[1]
        x == expr1[2]
        y == expr2[1]
        z == expr2[2]
        u == Mul(w, y)
        v == Mul(x, z)
    IN  <<Add(u, Mul(squared_field, v)), Sub(Sub(Mul(Add(w, x), Add(y, z)), u), v)>>

\* The "seemingly simpler way" of fm_f's docstring, four products.
DirectProduct(squared_field, expr1, expr2) ==
    LET w == expr1[1]
        x == expr1[2]
        y == expr2[1]
        z == expr2[2]
    IN  <<Add(Mul(w, y), Mul(Mul(squared_field, x), z)),
          Add(Mul(w, z), Mul(x, y))>>

\* field_multiply(squared_field): fm_f closed over squared_field, under @n_ary.
field_multiply(squared_field) ==
    [binary |-> "fm_f", squared_field |-> squared_field, n_ary |-> TRUE]

\* Integer multiplication as a plain function of two arguments.
int_multiply == [binary |-> "mul", n_ary |-> FALSE]

\* n_ary(g): the closure n_ary_f over g.
n_ary(g) == [g EXCEPT !.n_ary = TRUE]

\* A binary function given by its table, as a plain function of two arguments.
table_function(t) == [binary |-> "table", table |-> t, n_ary |-> FALSE]

\* g(x, y) for the binary function under the closure g.
CallBinary(g, x, y) ==
    CASE g.binary = "fm_f"  -> fm_f(g.squared_field, x, y)
      [] g.binary = "mul"   -> Mul(x, y)
      [] g.binary = "table" -> g.table[<<x, y>>]

\* n_ary_f folding from the left: f(f(x, y), z).
RECURSIVE n_ary_f_left(_, _)
n_ary_f_left(g, operands) ==
    IF Tail(operands) = <<>>
    THEN Head(operands)
    ELSE n_ary_f_left(g,
            <<CallBinary(g, operands[1], operands[2])>> \o Tail(Tail(operands)))

\* n_ary_f: x if there are no further operands, else f(x, n_ary_f of the rest).
RECURSIVE n_ary_f(_, _)
n_ary_f(g, operands) ==
    IF Tail(operands) = <<>>
    THEN Head(operands)
    ELSE CallBinary(g, Head(operands), n_ary_f(g, Tail(operands)))

\* How often n_ary_f on operands calls the binary function.
RECURSIVE n_ary_f_calls(_)
n_ary_f_calls(operands) ==
    IF Tail(operands) = <<>> THEN 0 ELSE 1 + n_ary_f_calls(Tail(operands))

\* Whether a call of g on operands binds: a plain function of two arguments
\* takes two.
Callable(g, operands) == g.n_ary \/ Len(operands) = 2

\* The call of g on operands, where it binds.
Call(g, operands) ==
    IF g.n_ary
    THEN n_ary_f(g, operands)
    ELSE CallBinary(g, operands[1], operands[2])

\* The calls of the binary function that a call of g on operands makes.
CallCount(g, operands) == IF g.n_ary THEN n_ary_f_calls(operands) ELSE 1

\* n/2 rounded up.
half_rounds_up(m) == (m + 1) \div 2

\* n-1 in place of n/2.
half_minus_one(m) == m - 1

\* n/2 on Python 2 ints.
half(m) == m \div 2

\* args without the operand for the odd bit.
build_args_drops_odd(recurse, e, m) == <<recurse, recurse>>

\* args = [recurse], with expr appended when n%2.
build_args_one_recurse(recurse, e, m) ==
    IF m % 2 # 0 THEN <<recurse, e>> ELSE <<recurse>>

\* args = [recurse, recurse], with expr appended when n%2.
build_args(recurse, e, m) ==
    IF m % 2 # 0 THEN <<recurse, recurse, e>> ELSE <<recurse, recurse>>

\* The shift count taken as n.
shift_count_n(m) == m

\* The shift count taken as n+1.
shift_count_plus(m) == m + 1

\* The shift count of fibonacci's return: n-1.
shift_count(m) == m - 1

\* b >> k for k >= 0: floor(b / 2^k).
shift_right(b, k) ==
    IF b.neg
    THEN Sub(Neg(Canon(FALSE, MagShr(MagSub(b.mag, <<1>>, 0), k))), Long(1))
    ELSE Canon(FALSE, MagShr(b.mag, k))

Top == stack[Len(stack)]
Pop == SubSeq(stack, 1, Len(stack) - 1)
Max(a, b) == IF a >= b THEN a ELSE b

----------------------------------------------------------------------------
(* fibonacci(n), and power_recursion under it. *)

NoFunction == [binary |-> "none", n_ary |-> FALSE]

\* The caller asks for fibonacci(n) with an n <= 0 first and, after each
\* answer, for the next n.
Init ==
    /\ n \in (0 - MaxNeg)..0
    /\ expr = <<>>
    /\ f = NoFunction
    /\ pc = "fibonacci"
    /\ stack = <<>>
    /\ args = <<>>
    /\ ret = <<>>
    /\ result = <<>>
    /\ err = ""
    /\ calls = 0
    /\ maxDepth = 0
    /\ products = 0
    /\ fibOf = <<>>
    /\ powerOf = <<>>

\* if n == 0: return 0
FibZero ==
    /\ pc = "fibonacci"
    /\ n = 0
    /\ result' = <<Long(0)>>
    /\ fibOf' = fibOf @@ (n :> Long(0))
    /\ pc' = "done"
    /\ UNCHANGED <<n, expr, f, stack, args, ret, err, calls, maxDepth,
                   products, powerOf>>

\* FibCall without the n == 0 return before it.
FibCallUnguarded ==
    /\ pc = "fibonacci"
    /\ expr' = <<Long(1), Long(1)>>
    /\ f' = field_multiply(Long(5))
    /\ stack' = <<n>>
    /\ calls' = calls + 1
    /\ maxDepth' = Max(maxDepth, 1)
    /\ pc' = "power_recursion"
    /\ UNCHANGED <<n, args, ret, result, err, products, fibOf, powerOf>>

\* power_recursion((1, 1), n, field_multiply(5)) is entered
FibCall ==
    /\ pc = "fibonacci"
    /\ n # 0
    /\ expr' = <<Long(1), Long(1)>>
    /\ f' = field_multiply(Long(5))
    /\ stack' = <<n>>
    /\ calls' = calls + 1
    /\ maxDepth' = Max(maxDepth, 1)
    /\ pc' = "power_recursion"
    /\ UNCHANGED <<n, args, ret, result, err, products, fibOf, powerOf>>

\* if n > 1: recurse = power_recursion(expr, n/2, f) is entered
PowerRecurse ==
    /\ pc = "power_recursion"
    /\ Top > 1
    /\ stack' = Append(stack, half(Top))
    /\ calls' = calls + 1
    /\ maxDepth' = Max(maxDepth, Len(stack) + 1)
    /\ UNCHANGED <<n, expr, f, pc, args, ret, result, err, products, fibOf,
                   powerOf>>

\* else: return expr
PowerBase ==
    /\ pc = "power_recursion"
    /\ ~(Top > 1)
    /\ ret' = <<expr>>
    /\ stack' = Pop
    /\ pc' = "returned"
    /\ UNCHANGED <<n, expr, f, args, result, err, calls, maxDepth, products,
                   fibOf, powerOf>>

\* the recursive call has returned: build args, return f of args
PowerCombine ==
    /\ pc = "returned"
    /\ stack # <<>>
    /\ LET a == build_args(ret[1], expr, Top)
       IN  /\ Callable(f, a)
           /\ args' = a
           /\ ret' = <<Call(f, a)>>
           /\ products' = products + CallCount(f, a)
    /\ stack' = Pop
    /\ UNCHANGED <<n, expr, f, pc, result, err, calls, maxDepth, fibOf,
                   powerOf>>

\* f called with operands f does not take: TypeError, never caught
PowerTypeError ==
    /\ pc = "returned"
    /\ stack # <<>>
    /\ LET a == build_args(ret[1], expr, Top)
       IN  /\ ~Callable(f, a)
           /\ args' = a
    /\ stack' = <<>>
    /\ err' = "TypeError"
    /\ pc' = "error"
    /\ UNCHANGED <<n, expr, f, ret, result, calls, maxDepth, products, fibOf,
                   powerOf>>

\* return power_recursion(...)[1] >> n-1
FibShift ==
    /\ pc = "returned"
    /\ stack = <<>>
    /\ shift_count(n) >= 0
    /\ result' = <<shift_right(ret[1][2], shift_count(n))>>
    /\ fibOf' = fibOf @@ (n :> result'[1])
    /\ powerOf' = powerOf @@ (n :> ret[1])
    /\ pc' = "done"
    /\ UNCHANGED <<n, expr, f, stack, args, ret, err, calls, maxDepth,
                   products>>

\* the same with a negative shift count: ValueError, never caught
FibShiftError ==
    /\ pc = "returned"
    /\ stack = <<>>
    /\ shift_count(n) < 0
    /\ err' = "ValueError"
    /\ pc' = "error"
    /\ UNCHANGED <<n, expr, f, stack, args, ret, result, calls, maxDepth,
                   products, fibOf, powerOf>>

\* the caller goes on to fibonacci(n + 1)
NextCall ==
    /\ pc = "done"
    /\ n < MaxN
    /\ n' = n + 1
    /\ expr' = <<>>
    /\ f' = NoFunction
    /\ pc' = "fibonacci"
    /\ stack' = <<>>
    /\ args' = <<>>
    /\ ret' = <<>>
    /\ result' = <<>>
    /\ calls' = 0
    /\ maxDepth' = 0
    /\ products' = 0
    /\ UNCHANGED <<err, fibOf, powerOf>>

Next ==
    \/ FibZero
    \/ FibCall
    \/ PowerRecurse
    \/ PowerBase
    \/ PowerCombine
    \/ FibShift
    \/ FibShiftError
    \/ NextCall

Spec == Init /\ [][Next]_vars

----------------------------------------------------------------------------
(* power_recursion(expr, n, f) called on its own. *)

InitPower(e, g) ==
    /\ n \in 1..MaxExp
    /\ expr = e
    /\ f = g
    /\ pc = "power_recursion"
    /\ stack = <<n>>
    /\ args = <<>>
    /\ ret = <<>>
    /\ result = <<>>
    /\ err = ""
    /\ calls = 1
    /\ maxDepth = 1
    /\ products = 0
    /\ fibOf = <<>>
    /\ powerOf = <<>>

\* the outermost power_recursion returns to its caller
PowerDone ==
    /\ pc = "returned"
    /\ stack = <<>>
    /\ result' = ret
    /\ pc' = "done"
    /\ UNCHANGED <<n, expr, f, stack, args, ret, err, calls, maxDepth,
                   products, fibOf, powerOf>>

\* over a field multiply
InitField ==
    \E e \in Exprs, d \in Fields :
        InitPower(<<Long(e[1]), Long(e[2])>>, field_multiply(Long(d)))

NextField ==
    \/ PowerRecurse
    \/ PowerBase
    \/ PowerCombine
    \/ PowerDone

SpecField == InitField /\ [][NextField]_vars

\* over integer multiplication, plain and under n_ary
InitMul ==
    \E k \in (0 - MaxK)..MaxK, g \in {int_multiply, n_ary(int_multiply)} :
        InitPower(Long(k), g)

NextMul ==
    \/ PowerRecurse
    \/ PowerBase
    \/ PowerCombine
    \/ PowerTypeError
    \/ PowerDone

SpecMul == InitMul /\ [][NextMul]_vars

----------------------------------------------------------------------------
(* One call of g on operands of its own. *)

InitCall(g, operands) ==
    /\ n = 0
    /\ expr = <<>>
    /\ f = g
    /\ pc = "call"
    /\ stack = <<>>
    /\ args = operands
    /\ ret = <<>>
    /\ result = <<>>
    /\ err = ""
    /\ calls = 0
    /\ maxDepth = 0
    /\ products = 0
    /\ fibOf = <<>>
    /\ powerOf = <<>>

CallF ==
    /\ pc = "call"
    /\ Callable(f, args)
    /\ ret' = <<Call(f, args)>>
    /\ result' = ret'
    /\ products' = products + CallCount(f, args)
    /\ pc' = "done"
    /\ UNCHANGED <<n, expr, f, stack, args, err, calls, maxDepth, fibOf,
                   powerOf>>

\* field_multiply(d)((w, x), (y, z))
Coefs == (0 - MaxCoef)..MaxCoef

InitMultiply ==
    \E w \in Coefs, x \in Coefs, y \in Coefs, z \in Coefs, d \in (0 - MaxD)..MaxD :
        InitCall(field_multiply(Long(d)),
                 <<<<Long(w), Long(x)>>, <<Long(y), Long(z)>>>>)

SpecMultiply == InitMultiply /\ [][CallF]_vars

\* n_ary(g)(x, ...) for every binary function g on Bit
Operands == UNION {[1..k -> Bit] : k \in 1..MaxArity}

InitNAry ==
    \E t \in [Bit \X Bit -> Bit], operands \in Operands :
        InitCall(n_ary(table_function(t)), operands)

SpecNAry == InitNAry /\ [][CallF]_vars

----------------------------------------------------------------------------
(* What the claims are stated with. *)

\* The number written in groups of three decimal digits.
Decimal(groups) ==
    Canon(FALSE, [i \in 1..Len(groups) |-> groups[Len(groups) + 1 - i]])

\* (1 + sqrt5)^m, as one more direct product on what the call for m - 1 got.
OneMoreFactor(m) ==
    IF m = 1
    THEN <<Long(1), Long(1)>>
    ELSE DirectProduct(Long(5), powerOf[m - 1], <<Long(1), Long(1)>>)

\* k^m, one factor at a time.
RECURSIVE IntPower(_, _)
IntPower(k, m) == IF m = 1 THEN k ELSE Mul(k, IntPower(k, m - 1))

\* 2^k
RECURSIVE Pow2(_)
Pow2(k) ==
    IF k = 0
    THEN Long(1)
    ELSE IF k % 2 = 0
         THEN Mul(Pow2(k \div 2), Pow2(k \div 2))
         ELSE Mul(Long(2), Pow2(k - 1))

\* floor(log2(m)) for m >= 1.
RECURSIVE Log2(_)
Log2(m) == IF m <= 1 THEN 0 ELSE 1 + Log2(m \div 2)

IsPowerOfTwo(m) == m = 2 ^ Log2(m)

\* The n of the power_recursion frame that returned last (at pc = "returned").
Returned == IF stack = <<>> THEN n ELSE half(Top)

Finished == pc \in {"done", "error"}

----------------------------------------------------------------------------
(* C1: for every n >= 0 fibonacci(n) returns the nth Fibonacci number, the  *)
(* one the recurrence F(n) = F(n-1) + F(n-2) from F(0) = 0, F(1) = 1 gives: *)
(* 0, 1, 1, 3, 55 and 354224848179261915075 for n = 0, 1, 2, 4, 10 and 100. *)
(* It never ends in an error.                                               *)
C1_FibonacciValue ==
    n >= 0 =>
        /\ pc # "error"
        /\ pc = "done" =>
            /\ fibOf[n] = result[1]
            /\ n >= 2 => result[1] = Add(fibOf[n - 1], fibOf[n - 2])
            /\ n = 0 => result = <<Long(0)>>
            /\ n = 1 => result = <<Long(1)>>
            /\ n = 2 => result = <<Long(1)>>
            /\ n = 4 => result = <<Long(3)>>
            /\ n = 10 => result = <<Long(55)>>
            /\ n = 100 =>
                result = <<Decimal(<<354, 224, 848, 179, 261, 915, 75>>)>>

C1_Witness ==
    /\ n = 100
    /\ pc = "done"
    /\ result = <<Decimal(<<354, 224, 848, 179, 261, 915, 75>>)>>

(* C2: for n >= 1 the sqrt5 coefficient of (1 + sqrt5)^n that the outermost *)
(* power_recursion returns is a multiple of 2^(n-1), so the shift loses     *)
(* nothing: the shifted coefficient times 2^(n-1) is the coefficient again. *)
C2_ShiftExact ==
    n >= 1 =>
        /\ (pc = "returned" /\ stack = <<>>) =>
            Mul(shift_right(ret[1][2], n - 1), Pow2(n - 1)) = ret[1][2]
        /\ pc = "done" => Mul(result[1], Pow2(n - 1)) = ret[1][2]

C2_Witness ==
    /\ n = 9
    /\ pc = "done"
    /\ ret[1][2] = Long(8704)
    /\ result = <<Long(34)>>

(* C3: the three-product field multiply of (w, x) and (y, z) under d is the *)
(* direct product (w*y + d*x*z, w*z + x*y), for negative, zero and positive *)
(* w, x, y, z and d.                                                        *)
C3_ThreeProductsDirect ==
    pc = "done" => ret = <<DirectProduct(f.squared_field, args[1], args[2])>>

C3_Witness ==
    /\ pc = "done"
    /\ f.squared_field = Long(-3)
    /\ args = <<<<Long(-2), Long(3)>>, <<Long(0), Long(-1)>>>>
    /\ ret = <<<<Long(9), Long(2)>>>>

(* C4 as claimed: with plain two-argument integer multiplication as f,      *)
(* power_recursion(k, n, f) returns k^n for every n >= 1.                   *)
C4_PlainMultiplyPower ==
    (~f.n_ary /\ Finished) => (pc = "done" /\ result = <<IntPower(expr, n)>>)

(* C4 amended: with integer multiplication under n_ary as f,                *)
(* power_recursion(k, n, f) returns k^n for every n >= 1 and every k. With  *)
(* plain two-argument multiplication it returns k^n when n is a power of    *)
(* two; for any other n some level is odd, f is called with three operands  *)
(* and the call ends in a TypeError.                                        *)
C4_NAryMultiplyPower ==
    /\ f.n_ary => pc # "error"
    /\ pc = "done" => result = <<IntPower(expr, n)>>
    /\ (~f.n_ary /\ Finished) => (pc = "done" <=> IsPowerOfTwo(n))
    /\ pc = "error" => (err = "TypeError" /\ Len(args) = 3 /\ result = <<>>)

C4_Witness ==
    /\ f.n_ary
    /\ pc = "done"
    /\ n = 11
    /\ expr = Long(-2)
    /\ result = <<Long(-2048)>>

(* C5: fibonacci(0) returns 0 without entering power_recursion or the field *)
(* multiply, and every power_recursion frame under fibonacci(n), n >= 0,    *)
(* has an exponent >= 1.                                                    *)
C5_ZeroBypasses ==
    /\ n = 0 =>
        /\ calls = 0 /\ products = 0 /\ stack = <<>> /\ ret = <<>>
        /\ pc \in {"fibonacci", "done"}
        /\ pc = "done" => result = <<Long(0)>>
    /\ n >= 0 => \A i \in DOMAIN stack : stack[i] >= 1

C5_Witness == n = 0 /\ pc = "done" /\ result = <<Long(0)>> /\ calls = 0

(* C6: under fibonacci(n), n >= 1, every power_recursion frame returns what *)
(* multiplying (1, 1) by itself one direct product at a time gives for its  *)
(* exponent m: (1, 1) for m = 1, and for m > 1 one more direct product by   *)
(* (1, 1) on what power_recursion returned for m - 1. The outermost frame   *)
(* returns it for n.                                                        *)
C6_RecursionIsNaivePower ==
    (n >= 1 /\ pc = "returned") => ret = <<OneMoreFactor(Returned)>>

C6_Witness ==
    /\ n = 13
    /\ pc = "returned"
    /\ stack = <<>>
    /\ ret = <<OneMoreFactor(13)>>
    /\ DOMAIN powerOf = 1..12

(* C7 as claimed: on three operands n_ary(f) returns f(f(x, y), z).         *)
C7_LeftAssociative ==
    (pc = "done" /\ Len(args) = 3) =>
        ret = <<f.table[<<f.table[<<args[1], args[2]>>], args[3]>>]>>

(* C7 amended: n_ary(f) folds from the right. On one operand x it returns x *)
(* without calling f, on (x, y) it returns f(x, y), and on (x, y, z) it     *)
(* returns f(x, f(y, z)).                                                   *)
C7_RightAssociative ==
    pc = "done" =>
        /\ Len(args) = 1 => (ret = <<args[1]>> /\ products = 0)
        /\ Len(args) = 2 =>
            (ret = <<f.table[<<args[1], args[2]>>]>> /\ products = 1)
        /\ Len(args) = 3 =>
            /\ ret = <<f.table[<<args[1], f.table[<<args[2], args[3]>>]>>]>>
            /\ products = 2

C7_Witness ==
    /\ pc = "done"
    /\ Len(args) = 3
    /\ ret = <<f.table[<<args[1], f.table[<<args[2], args[3]>>]>>]>>
    /\ ret # <<f.table[<<f.table[<<args[1], args[2]>>], args[3]>>]>>

(* C8 as claimed: under fibonacci(n), n >= 0, every call of f on args made  *)
(* by power_recursion has one or two operands.                              *)
C8_AtMostTwoOperands ==
    (n >= 0 /\ args # <<>>) => Len(args) \in {1, 2}

(* C8 amended: under fibonacci(n), n >= 0, every call of f on args made by  *)
(* power_recursion has two operands (recurse, recurse) when the frame's n   *)
(* is even and three (recurse, recurse, expr) when it is odd; never one,    *)
(* never more than three.                                                   *)
C8_TwoOrThreeOperands ==
    (n >= 0 /\ args # <<>>) =>
        /\ Len(args) \in {2, 3}
        /\ Len(args) = 2 + (Returned % 2)
        /\ args[1] = args[2]
        /\ Len(args) = 3 => args[3] = expr

C8_Witness == n = 6 /\ pc = "returned" /\ Len(stack) = 1 /\ Len(args) = 3

\* The steps a call of power_recursion is from returning to its caller.
StepsLeft ==
    CASE pc = "power_recursion" -> 2 * Log2(Top) + Len(stack) + 1
      [] pc = "returned"        -> Len(stack) + 1
      [] OTHER                  -> 0

\* Some step can be taken.
CanStep ==
    \/ pc = "power_recursion" /\ stack # <<>>
    \/ pc = "returned" /\ stack = <<>>
    \/ pc = "returned" /\ Callable(f, build_args(ret[1], expr, Top))

(* C9: power_recursion(expr, n, field_multiply(d)), n >= 1, terminates:     *)
(* until it has returned a step can be taken, and every step brings it one  *)
(* step closer, from 2 * floor(log2(n)) + 2 steps away. It enters           *)
(* floor(log2(n)) + 1 frames, nested that deep, and makes at most           *)
(* 2 * floor(log2(n)) two-operand products, none for n = 1.                 *)
C9_DepthAndProducts ==
    /\ [](/\ calls <= Log2(n) + 1
          /\ maxDepth = calls
          /\ Len(stack) <= maxDepth
          /\ products <= 2 * Log2(n)
          /\ pc \in {"power_recursion", "returned", "done"}
          /\ pc # "done" => CanStep
          /\ StepsLeft <= 2 * Log2(n) + 2
          /\ pc = "done" =>
              /\ calls = Log2(n) + 1
              /\ maxDepth = Log2(n) + 1
              /\ n = 1 => products = 0)
    /\ [][StepsLeft' = StepsLeft - 1]_vars

C9_Witness ==
    /\ pc = "done"
    /\ n = 15
    /\ maxDepth = 4
    /\ products = 6

(* C10: for n < 0 fibonacci(n) returns nothing: power_recursion returns     *)
(* (1, 1) from its n <= 1 branch without a product, and the shift by n-1    *)
(* is by a negative count and ends the call in a ValueError.                *)
C10_NegativeIndexFails ==
    n < 0 =>
        /\ pc # "done"
        /\ result = <<>>
        /\ products = 0
        /\ calls <= 1
        /\ pc = "returned" => (ret = <<<<Long(1), Long(1)>>>> /\ stack = <<>>)
        /\ pc = "error" => (err = "ValueError" /\ ret = <<<<Long(1), Long(1)>>>>)

C10_Witness == n = -2 /\ pc = "error" /\ err = "ValueError"

=============================================================================
